---------------------------- MODULE Spec2Model ----------------------------
(***************************************************************************)
(* Fliinow Partner API client: the request/response lifecycle of           *)
(* FliinowClient.request (timeout timer, abort, response interpretation,   *)
(* error normalisation) and the FliinowError it raises.                    *)
(*                                                                         *)
(* Time is abstract: an armed timer may fire at any moment.  The server    *)
(* and the network are the environment: they may answer, fail, or stay     *)
(* silent, before or after the response headers.                           *)
(***************************************************************************)
EXTENDS Integers, Sequences, FiniteSets, TLC

VARIABLES config, client, call

vars == <<config, client, call>>

(***************************************************************************)
(* Bounds and value universes                                              *)
(***************************************************************************)

\* Number of call sites that may have a request in flight at the same time.
NumCalls == 2

CallIds == 1..NumCalls

\* The call sites the sequential specification uses (one request at a time).
SeqCalls == {1}

\* An optional value: <<>> is undefined, <<v>> is the value v.
None == <<>>

Some(v) == <<v>>

DefaultTimeout == 30000

SandboxUrl == "https://demo.fliinow.com/integration-api/v1"

ProductionUrl == "https://app.fliinow.com/integration-api/v1"

CustomUrl == "https://custom.url"

\* A custom base URL that ends with a slash.
CustomUrlSlash == "https://custom.url/"

\* FliinowClientConfig values handed to the constructor.
Configs ==
    [apiKey : {"fk_test_key"},
     sandbox : {None, Some(TRUE), Some(FALSE)},
     timeout : {None, Some(0), Some(5000)},
     baseUrl : {None, Some(CustomUrl)}]

(***************************************************************************)
(* JavaScript values.  Every value is a record of the same shape:          *)
(*   t : its type, f : the fields of an object, in order, as <<key, text>> *)
(*   pairs, s : the text of a string, number or boolean.                   *)
(***************************************************************************)
JsUndefined == [t |-> "undefined", f |-> <<>>, s |-> ""]

JsNull == [t |-> "null", f |-> <<>>, s |-> ""]

JsString(s) == [t |-> "string", f |-> <<>>, s |-> s]

JsNumber(s) == [t |-> "number", f |-> <<>>, s |-> s]

JsBoolean(s) == [t |-> "boolean", f |-> <<>>, s |-> s]

JsArray == [t |-> "array", f |-> <<>>, s |-> ""]

JsObject(fields) == [t |-> "object", f |-> fields, s |-> ""]

\* value.key for a string-valued property: None when the property is absent
\* (or the value is not an object).
Prop(value, key) ==
    IF \E i \in 1..Len(value.f) : value.f[i][1] = key
    THEN Some(value.f[CHOOSE i \in 1..Len(value.f) : value.f[i][1] = key][2])
    ELSE None

\* JavaScript truthiness.
Truthy(value) ==
    ~ \/ value.t \in {"undefined", "null"}
      \/ value.t = "number" /\ value.s \in {"0", "NaN"}
      \/ value.t = "string" /\ value.s = ""
      \/ value.t = "boolean" /\ value.s = "false"

(***************************************************************************)
(* The JSON primitive (JSON.stringify, Response.json)                      *)
(***************************************************************************)
RECURSIVE StringifyFields(_)
StringifyFields(fields) ==
    IF fields = <<>> THEN ""
    ELSE "\"" \o fields[1][1] \o "\":\"" \o fields[1][2] \o "\""
         \o (IF Len(fields) > 1 THEN "," ELSE "")
         \o StringifyFields(Tail(fields))

\* JSON.stringify(value)
JsonStringify(value) ==
    CASE value.t = "string" -> "\"" \o value.s \o "\""
      [] value.t \in {"number", "boolean"} -> value.s
      [] value.t = "null" -> "null"
      [] value.t = "array" -> "[]"
      [] value.t = "object" -> "{" \o StringifyFields(value.f) \o "}"

OperationDoc ==
    JsObject(<< <<"id", "abc123">>, <<"status", "GENERATED">>,
                <<"financingUrl", "https://pay.example/abc123">> >>)

\* An operation with a status outside the known set and a field the types
\* do not declare.
FutureOperationDoc ==
    JsObject(<< <<"id", "abc123">>, <<"status", "ON_HOLD">>, <<"extra", "x">> >>)

ErrorDoc ==
    JsObject(<< <<"error", "RATE_LIMIT_EXCEEDED">>, <<"message", "Too many requests">>,
                <<"timestamp", "2026-01-01T00:00:00Z">>, <<"path", "/operations">>,
                <<"requestId", "req-1">> >>)

ErrorDocNoRequestId ==
    JsObject(<< <<"error", "NOT_FOUND">>, <<"message", "Operation not found">>,
                <<"timestamp", "2026-01-01T00:00:00Z">>, <<"path", "/operations/abc123">> >>)

\* The JSON documents a server may send.
JsonDocuments ==
    {OperationDoc, FutureOperationDoc, ErrorDoc, ErrorDocNoRequestId, JsNull, JsArray}

HtmlBody == "<html>502 Bad Gateway</html>"

\* Response body texts: the serialisation of each document, and a text that
\* is not JSON.
BodyTexts == {JsonStringify(d) : d \in JsonDocuments} \cup {HtmlBody}

\* Response.json(): the document whose serialisation the text is; a text
\* that is no document's serialisation fails to decode (SyntaxError).
JsonParse(text) ==
    IF \E d \in JsonDocuments : JsonStringify(d) = text
    THEN [ok |-> TRUE, data |-> CHOOSE d \in JsonDocuments : JsonStringify(d) = text]
    ELSE [ok |-> FALSE, data |-> JsUndefined]

(***************************************************************************)
(* Numbers read from a header: parseInt(text, 10).  A header value is a    *)
(* sequence of characters.                                                 *)
(***************************************************************************)
NumUndefined == [kind |-> "undefined", n |-> 0]

NaN == [kind |-> "NaN", n |-> 0]

Num(n) == [kind |-> "number", n |-> n]

Digits == <<"0", "1", "2", "3", "4", "5", "6", "7", "8", "9">>

IsDigit(ch) == \E i \in 1..10 : Digits[i] = ch

DigitValue(ch) == (CHOOSE i \in 1..10 : Digits[i] = ch) - 1

RECURSIVE SkipWhitespace(_)
SkipWhitespace(chars) ==
    IF chars # <<>> /\ chars[1] \in {" ", "\t"} THEN SkipWhitespace(Tail(chars)) ELSE chars

\* The value of the longest prefix of digits of chars, acc being the value
\* read so far.
RECURSIVE DigitsValue(_, _)
DigitsValue(chars, acc) ==
    IF chars # <<>> /\ IsDigit(chars[1])
    THEN DigitsValue(Tail(chars), 10 * acc + DigitValue(chars[1]))
    ELSE acc

\* parseInt(chars, 10): leading whitespace skipped, an optional sign, then
\* the longest prefix of digits; NaN when there is no digit.
ParseInt(chars) ==
    LET s == SkipWhitespace(chars)
        signed == s # <<>> /\ s[1] \in {"+", "-"}
        rest == IF signed THEN Tail(s) ELSE s
        sign == IF signed /\ s[1] = "-" THEN -1 ELSE 1
    IN IF rest # <<>> /\ IsDigit(rest[1]) THEN Num(sign * DigitsValue(rest, 0)) ELSE NaN

HttpDate ==
    <<"W", "e", "d", ",", " ", "2", "1", " ", "O", "c", "t", " ", "2", "0", "1", "5",
      " ", "0", "7", ":", "2", "8", ":", "0", "0", " ", "G", "M", "T">>

\* response.headers.get('Retry-After'): None when the header is absent.
RetryAfterHeaders == {None, Some(<<>>), Some(<<"5">>), Some(<<"1", "2", "0">>), Some(HttpDate)}

(***************************************************************************)
(* Thrown values.  class is the constructor of an Error object, "none" for *)
(* a thrown value that is not an Error.                                    *)
(***************************************************************************)
PlainError(class, name, message) ==
    [class |-> class, name |-> name, message |-> message, statusCode |-> None,
     code |-> None, path |-> None, requestId |-> None, retryAfter |-> NumUndefined]

\* fetch rejects with a TypeError when the network fails (DNS, reset, ...).
NetworkError == PlainError("TypeError", "TypeError", "fetch failed")

\* A value that is not an Error, thrown by the underlying stack.
NonErrorThrow == PlainError("none", "", "boom")

\* What an aborted fetch (or body read) rejects with.
AbortError == PlainError("DOMException", "AbortError", "This operation was aborted")

\* Response.json() on a body that is not JSON.
SyntaxError == PlainError("SyntaxError", "SyntaxError", "Unexpected token < in JSON")

\* The body stream breaks before the body is complete.
BodyReadError == PlainError("TypeError", "TypeError", "terminated")

\* Reading response.message of null.
NullPropertyError ==
    PlainError("TypeError", "TypeError", "Cannot read properties of null (reading 'message')")

\* error instanceof Error
InstanceOfError(error) == error.class # "none"

\* error instanceof FliinowError
InstanceOfFliinowError(error) == error.class = "FliinowError"

\* Mutant of FliinowError: the service's error code read from a "code"
\* property instead of "error".
FliinowErrorCodeProperty(response, statusCode, retryAfter) ==
    [class |-> "FliinowError",
     name |-> "FliinowError",
     message |-> IF Prop(response, "message") = None THEN "" ELSE Prop(response, "message")[1],
     statusCode |-> Some(statusCode),
     code |-> Prop(response, "code"),
     path |-> Prop(response, "path"),
     requestId |-> Prop(response, "requestId"),
     retryAfter |-> retryAfter]

\* new FliinowError(response, statusCode, retryAfter), response an object,
\* array, string or number: a property it lacks reads as undefined, and
\* super(undefined) leaves the message empty.
FliinowError(response, statusCode, retryAfter) ==
    [class |-> "FliinowError",
     name |-> "FliinowError",
     message |-> IF Prop(response, "message") = None THEN "" ELSE Prop(response, "message")[1],
     statusCode |-> Some(statusCode),
     code |-> Prop(response, "error"),
     path |-> Prop(response, "path"),
     requestId |-> Prop(response, "requestId"),
     retryAfter |-> retryAfter]

\* new Error(`Request timeout after ${timeout}ms`)
TimeoutError(timeout) ==
    PlainError("Error", "Error", "Request timeout after " \o ToString(timeout) \o "ms")

UnknownError == PlainError("Error", "Error", "Unknown error occurred")

(***************************************************************************)
(* The client                                                              *)
(***************************************************************************)
\* Mutant of ResolveTimeout: config.timeout || 30000, which drops a timeout
\* of 0.
ResolveTimeoutOr(cfg) ==
    IF cfg.timeout = None \/ cfg.timeout[1] = 0 THEN DefaultTimeout ELSE cfg.timeout[1]

\* config.timeout ?? 30000
ResolveTimeout(cfg) == IF cfg.timeout = None THEN DefaultTimeout ELSE cfg.timeout[1]

\* Mutant of ResolveBaseUrl: the sandbox flag looked at before baseUrl.
ResolveBaseUrlSandboxFirst(cfg) ==
    IF cfg.sandbox # None /\ cfg.sandbox[1] THEN SandboxUrl
    ELSE IF cfg.baseUrl # None /\ cfg.baseUrl[1] # "" THEN cfg.baseUrl[1]
    ELSE ProductionUrl

\* The base URL: config.baseUrl when truthy, else by config.sandbox.
ResolveBaseUrl(cfg) ==
    IF cfg.baseUrl # None /\ cfg.baseUrl[1] # "" THEN cfg.baseUrl[1]
    ELSE IF cfg.sandbox # None /\ cfg.sandbox[1] THEN SandboxUrl
    ELSE ProductionUrl

\* new FliinowClient(cfg)
NewClient(cfg) ==
    [baseUrl |-> ResolveBaseUrl(cfg), apiKey |-> cfg.apiKey, timeout |-> ResolveTimeout(cfg)]

(***************************************************************************)
(* One invocation of request at a call site                                *)
(*   pc        idle | fetching (awaiting fetch) | reading (awaiting        *)
(*             response.json()) | resolved | rejected                      *)
(*   timer     none | armed | fired | cleared                              *)
(*   aborted   controller.signal.aborted                                   *)
(*   args      the arguments of the invocation                             *)
(*   exchange  what fetch was called with                                  *)
(*   response  the response fetch resolved with                            *)
(*   body      unread | complete | broken: what became of the body stream  *)
(*   thrown    what the catch block caught                                 *)
(*   value     what the call resolved with; error: what it rejected with   *)
(*   fetches, decodes, errors: how many times this invocation called       *)
(*             fetch, called response.json(), constructed a FliinowError   *)
(*   op        the operation of OperationsApi that invoked request, with   *)
(*             its arguments                                               *)
(*   facade    none | awaiting | resolved | rejected: that operation       *)
(*   result    what the operation resolved with; failure: what it rejected *)
(*             with                                                        *)
(***************************************************************************)
Methods == {"GET", "POST"}

Paths == {"/operations", "/operations/abc123"}

CancelRequest == JsObject(<< <<"reason", "Customer requested cancellation">> >>)

\* The body argument of request: absent, an object, or a falsy value.
RequestBodies == {JsUndefined, CancelRequest, JsNumber("0"), JsNull}

Statuses == {200, 204, 299, 300, 429, 500}

Responses == [status : Statuses, retryAfter : RetryAfterHeaders, body : BodyTexts]

\* What a failing fetch rejects with.
FetchFailures == {NetworkError, NonErrorThrow}

\* What response.json() rejects with when the body cannot be read to its end.
BodyFailures == {BodyReadError, NonErrorThrow}

NoExchange ==
    [url |-> "", method |-> "", apiKeyHeader |-> "", contentType |-> "", accept |-> "",
     hasPayload |-> FALSE, payload |-> ""]

NoArgs == [method |-> "", path |-> "", body |-> JsUndefined]

\* No operation of OperationsApi: request invoked directly.
NoOperation ==
    [name |-> "request", operationId |-> "", request |-> JsUndefined, params |-> None]

IdleCall ==
    [pc |-> "idle", args |-> NoArgs, timer |-> "none", aborted |-> FALSE,
     exchange |-> NoExchange, response |-> None, body |-> "unread",
     thrown |-> None, value |-> JsUndefined, error |-> None,
     fetches |-> 0, decodes |-> 0, errors |-> 0,
     op |-> NoOperation, facade |-> "none", result |-> JsUndefined, failure |-> None]

Settled(c) == call[c].pc \in {"resolved", "rejected"}

Pending(c) == call[c].pc \in {"fetching", "reading"}

\* Call site c can make a new invocation: neither request nor the operation
\* that called it is suspended there.
Free(c) == ~Pending(c) /\ call[c].facade # "awaiting"

\* fetch called with a Content-Type only when a payload is sent.
BuildExchangeContentTypeOfPayload(cl, method, path, body) ==
    [url |-> cl.baseUrl \o path,
     method |-> method,
     apiKeyHeader |-> cl.apiKey,
     contentType |-> IF Truthy(body) THEN "application/json" ELSE "",
     accept |-> "application/json",
     hasPayload |-> Truthy(body),
     payload |-> IF Truthy(body) THEN JsonStringify(body) ELSE ""]

\* fetch called with the key in the query string as well.
BuildExchangeKeyInQuery(cl, method, path, body) ==
    [url |-> cl.baseUrl \o path \o "?api_key=" \o cl.apiKey,
     method |-> method,
     apiKeyHeader |-> cl.apiKey,
     contentType |-> "application/json",
     accept |-> "application/json",
     hasPayload |-> Truthy(body),
     payload |-> IF Truthy(body) THEN JsonStringify(body) ELSE ""]

\* The arguments of fetch(url, {method, headers, body, signal}).
BuildExchange(cl, method, path, body) ==
    [url |-> cl.baseUrl \o path,
     method |-> method,
     apiKeyHeader |-> cl.apiKey,
     contentType |-> "application/json",
     accept |-> "application/json",
     hasPayload |-> Truthy(body),
     payload |-> IF Truthy(body) THEN JsonStringify(body) ELSE ""]

\* clearTimeout(timeoutId): a timer that has fired stays fired.
ClearTimeout(timer) == IF timer = "armed" THEN "cleared" ELSE timer

\* response.ok
ResponseOk(status) == status >= 200 /\ status <= 299

\* response.status === 204
IsNoContent(status) == status = 204

\* retryAfter ? parseInt(retryAfter, 10) : undefined
RetryAfterOf(header) ==
    IF header # None /\ header[1] # <<>> THEN ParseInt(header[1]) ELSE NumUndefined

\* Mutant of Normalize: every failure wrapped as a FliinowError.
NormalizeAsFliinowError(error, timeout) ==
    IF InstanceOfFliinowError(error) THEN error
    ELSE [class |-> "FliinowError", name |-> "FliinowError",
          message |-> IF error.name = "AbortError" THEN TimeoutError(timeout).message
                      ELSE error.message,
          statusCode |-> Some(0), code |-> None, path |-> None, requestId |-> None,
          retryAfter |-> NumUndefined]

\* Mutant of Normalize: whatever was caught is rethrown as it is, unless it
\* is an AbortError.
NormalizeRethrowAll(error, timeout) ==
    IF InstanceOfError(error) /\ ~InstanceOfFliinowError(error) /\ error.name = "AbortError"
    THEN TimeoutError(timeout)
    ELSE error

\* A catch block that takes a TypeError too for an abort.
NormalizeTypeErrorAsTimeout(error, timeout) ==
    IF InstanceOfFliinowError(error) THEN error
    ELSE IF InstanceOfError(error)
         THEN IF error.name \in {"AbortError", "TypeError"} THEN TimeoutError(timeout) ELSE error
         ELSE UnknownError

\* The catch block's rethrow: a FliinowError as it is, an AbortError as the
\* timeout error, another Error as it is, anything else as the unknown error.
Normalize(error, timeout) ==
    IF InstanceOfFliinowError(error) THEN error
    ELSE IF InstanceOfError(error)
         THEN IF error.name = "AbortError" THEN TimeoutError(timeout) ELSE error
         ELSE UnknownError

\* Mutant of Catch: the catch block without its clearTimeout.
CatchNoClear(cl, rec, error) ==
    [rec EXCEPT !.pc = "rejected",
                !.thrown = Some(error),
                !.error = Some(Normalize(error, cl.timeout))]

\* Mutant of Catch: the retries option honoured, a failed exchange started
\* again once before the call rejects.
CatchRetryOnce(cl, rec, error) ==
    IF rec.fetches < 2
    THEN [rec EXCEPT !.pc = "fetching", !.timer = "armed", !.aborted = FALSE,
                     !.response = None, !.body = "unread", !.fetches = rec.fetches + 1]
    ELSE [rec EXCEPT !.timer = ClearTimeout(rec.timer),
                     !.pc = "rejected",
                     !.thrown = Some(error),
                     !.error = Some(Normalize(error, cl.timeout))]

\* The catch block: the timer is cleared and the call rejects.
Catch(cl, rec, error) ==
    [rec EXCEPT !.timer = ClearTimeout(rec.timer),
                !.pc = "rejected",
                !.thrown = Some(error),
                !.error = Some(Normalize(error, cl.timeout))]

\* request, up to its first await: the controller and the timer are created
\* and fetch is called, once.
StartRequest(cl, method, path, body) ==
    [IdleCall EXCEPT !.pc = "fetching",
                     !.args = [method |-> method, path |-> path, body |-> body],
                     !.timer = "armed",
                     !.exchange = BuildExchange(cl, method, path, body),
                     !.fetches = 1]

\* Mutant of AfterFetch: no special case for 204, every response decoded.
AfterFetchAlwaysDecode(rec, resp) ==
    [rec EXCEPT !.timer = ClearTimeout(rec.timer), !.response = Some(resp),
                !.pc = "reading", !.decodes = rec.decodes + 1]

\* fetch resolved with resp: the timer is cleared; a 204 resolves the call
\* with undefined, any other status goes on to response.json().
AfterFetch(rec, resp) ==
    LET got == [rec EXCEPT !.timer = ClearTimeout(rec.timer), !.response = Some(resp)]
    IN IF IsNoContent(resp.status)
       THEN [got EXCEPT !.pc = "resolved", !.value = JsUndefined]
       ELSE [got EXCEPT !.pc = "reading", !.decodes = rec.decodes + 1]

\* Mutant of ReturnData: the decoded value checked against the declared
\* type, a property the type does not declare dropped.
ReturnDeclaredFields(rec, data) ==
    [rec EXCEPT !.pc = "resolved",
                !.value = [data EXCEPT !.f = SelectSeq(data.f, LAMBDA kv : kv[1] # "extra")]]

\* return data as T
ReturnData(rec, data) == [rec EXCEPT !.pc = "resolved", !.value = data]

\* throw new FliinowError(data, response.status, retryAfter): the error is
\* built from the decoded value and caught by the catch block; building it
\* from null throws a TypeError instead.
ThrowFliinowError(cl, rec, data) ==
    LET resp == rec.response[1]
    IN IF data.t = "null"
       THEN Catch(cl, rec, NullPropertyError)
       ELSE Catch(cl, [rec EXCEPT !.errors = rec.errors + 1],
                  FliinowError(data, resp.status, RetryAfterOf(resp.retryAfter)))

\* The status examined first: a status that is not ok throws a FliinowError
\* even when the body is not JSON.
AfterJsonStatusFirst(cl, rec) ==
    LET parsed == JsonParse(rec.response[1].body)
        read == [rec EXCEPT !.body = "complete"]
    IN IF ~ResponseOk(rec.response[1].status)
       THEN ThrowFliinowError(cl, read, IF parsed.ok THEN parsed.data ELSE JsObject(<<>>))
       ELSE IF ~parsed.ok THEN Catch(cl, read, SyntaxError)
            ELSE ReturnData(read, parsed.data)

\* response.json() settled on the complete body: a decode failure is thrown;
\* a status that is not ok throws a FliinowError; otherwise the call
\* resolves with the decoded value.
AfterJson(cl, rec) ==
    LET parsed == JsonParse(rec.response[1].body)
        read == [rec EXCEPT !.body = "complete"]
    IN IF ~parsed.ok THEN Catch(cl, read, SyntaxError)
       ELSE IF ~ResponseOk(rec.response[1].status)
            THEN ThrowFliinowError(cl, read, parsed.data)
            ELSE ReturnData(read, parsed.data)

(***************************************************************************)
(* OperationsApi.  The parameters of list are the entries of the params    *)
(* object, in order, as <<key, value>> pairs, a value being a record       *)
(*   t : string | number | undefined | null, chars : its characters.       *)
(***************************************************************************)
ParamString(chars) == [t |-> "string", chars |-> chars]

ParamNumber(chars) == [t |-> "number", chars |-> chars]

ParamUndefined == [t |-> "undefined", chars |-> <<>>]

ParamNull == [t |-> "null", chars |-> <<>>]

\* String(value)
ToStringChars(value) ==
    CASE value.t \in {"string", "number"} -> value.chars
      [] value.t = "undefined" -> <<"u", "n", "d", "e", "f", "i", "n", "e", "d">>
      [] value.t = "null" -> <<"n", "u", "l", "l">>

\* One character as URLSearchParams serialises it
\* (application/x-www-form-urlencoded).
FormEncodeChar(ch) ==
    CASE ch = " " -> "+"
      [] ch = ":" -> "%3A"
      [] ch = "+" -> "%2B"
      [] ch = "&" -> "%26"
      [] ch = "=" -> "%3D"
      [] ch = "/" -> "%2F"
      [] OTHER -> ch

RECURSIVE FormEncode(_)
FormEncode(chars) ==
    IF chars = <<>> THEN "" ELSE FormEncodeChar(chars[1]) \o FormEncode(Tail(chars))

\* The kept entries as <<key, text>> pairs: searchParams after the loop.
RECURSIVE AppendEntries(_)
AppendEntries(entries) ==
    IF entries = <<>> THEN <<>>
    ELSE IF entries[1][2].t # "undefined" /\ entries[1][2].t # "null"
         THEN << <<entries[1][1], ToStringChars(entries[1][2])>> >>
              \o AppendEntries(Tail(entries))
         ELSE AppendEntries(Tail(entries))

\* searchParams.toString()
RECURSIVE SearchParamsToString(_)
SearchParamsToString(pairs) ==
    IF pairs = <<>> THEN ""
    ELSE pairs[1][1] \o "=" \o FormEncode(pairs[1][2])
         \o (IF Len(pairs) > 1 THEN "&" ELSE "")
         \o SearchParamsToString(Tail(pairs))

\* buildQueryString keeping a field only when its value is truthy.
BuildQueryStringTruthy(entries) ==
    LET kept == SelectSeq(entries, LAMBDA e : e[2].t \notin {"undefined", "null"}
                                              /\ e[2].chars \notin {<<>>, <<"0">>})
        queryString == SearchParamsToString(AppendEntries(kept))
    IN IF queryString # "" THEN "?" \o queryString ELSE ""

\* OperationsApi.buildQueryString(params)
BuildQueryString(entries) ==
    LET queryString == SearchParamsToString(AppendEntries(entries))
    IN IF queryString # "" THEN "?" \o queryString ELSE ""

\* The path of list(params): params ? buildQueryString(params) : ''
ListPath(params) ==
    "/operations" \o (IF params # None THEN BuildQueryString(params[1]) ELSE "")

\* An operation invokes request(method, path, body) and awaits it.
InvokeRequest(cl, op, method, path, body) ==
    [StartRequest(cl, method, path, body) EXCEPT !.op = op, !.facade = "awaiting"]

\* An operation that returns what request resolved with, cancel included.
OperationReturnValue(rec) ==
    IF rec.pc = "rejected"
    THEN [rec EXCEPT !.facade = "rejected", !.failure = rec.error]
    ELSE [rec EXCEPT !.facade = "resolved", !.result = rec.value]

\* The operation resumes once request has settled: cancel discards the
\* value request resolved with, every other operation returns it; a
\* rejection of request is the operation's.
OperationReturn(rec) ==
    IF rec.pc = "rejected"
    THEN [rec EXCEPT !.facade = "rejected", !.failure = rec.error]
    ELSE [rec EXCEPT !.facade = "resolved",
                     !.result = IF rec.op.name = "cancel" THEN JsUndefined ELSE rec.value]

(***************************************************************************)
(* Actions                                                                 *)
(***************************************************************************)
Init ==
    /\ config \in Configs
    /\ client = NewClient(config)
    /\ call = [c \in CallIds |-> IdleCall]

\* A caller invokes request(method, path, body) at call site c (again, once
\* the previous invocation there has settled).
Request(c, method, path, body) ==
    /\ Free(c)
    /\ call' = [call EXCEPT ![c] = StartRequest(client, method, path, body)]
    /\ UNCHANGED <<config, client>>

\* The server's status line and headers arrive: fetch resolves.
FetchResolve(c, resp) ==
    /\ call[c].pc = "fetching"
    /\ ~call[c].aborted
    /\ call' = [call EXCEPT ![c] = AfterFetch(call[c], resp)]
    /\ UNCHANGED <<config, client>>

\* The network fails before a response: fetch rejects.
FetchReject(c, error) ==
    /\ call[c].pc = "fetching"
    /\ ~call[c].aborted
    /\ call' = [call EXCEPT ![c] = Catch(client, call[c], error)]
    /\ UNCHANGED <<config, client>>

\* A timer firing on a controller shared by the client: every exchange in
\* flight is aborted.
TimerFireSharedController(c) ==
    /\ call[c].timer = "armed"
    /\ call' = [d \in CallIds |->
                  IF d = c THEN [call[d] EXCEPT !.timer = "fired", !.aborted = TRUE]
                  ELSE IF Pending(d) THEN [call[d] EXCEPT !.aborted = TRUE]
                  ELSE call[d]]
    /\ UNCHANGED <<config, client>>

\* The timer of call site c fires: controller.abort().
TimerFire(c) ==
    /\ call[c].timer = "armed"
    /\ call' = [call EXCEPT ![c].timer = "fired", ![c].aborted = TRUE]
    /\ UNCHANGED <<config, client>>

\* A client that backs off: a timed-out call doubles the timeout of the
\* calls after it.
AbortRejectBackoff(c) ==
    /\ Pending(c)
    /\ call[c].aborted
    /\ call' = [call EXCEPT ![c] = Catch(client, call[c], AbortError)]
    /\ client' = [client EXCEPT !.timeout = 2 * client.timeout + 1000]
    /\ UNCHANGED config

\* The aborted fetch (or body read) rejects with an AbortError.
AbortReject(c) ==
    /\ Pending(c)
    /\ call[c].aborted
    /\ call' = [call EXCEPT ![c] = Catch(client, call[c], AbortError)]
    /\ UNCHANGED <<config, client>>

\* The body is complete: response.json() settles.
BodyDecoded(c) ==
    /\ call[c].pc = "reading"
    /\ ~call[c].aborted
    /\ call' = [call EXCEPT ![c] = AfterJson(client, call[c])]
    /\ UNCHANGED <<config, client>>

\* The connection breaks while the body is read: response.json() rejects.
BodyFail(c, error) ==
    /\ call[c].pc = "reading"
    /\ ~call[c].aborted
    /\ call' = [call EXCEPT ![c] = Catch(client, [call[c] EXCEPT !.body = "broken"], error)]
    /\ UNCHANGED <<config, client>>

Next ==
    \E c \in SeqCalls :
        \/ \E m \in Methods, p \in Paths, b \in RequestBodies : Request(c, m, p, b)
        \/ \E resp \in Responses : FetchResolve(c, resp)
        \/ \E error \in FetchFailures : FetchReject(c, error)
        \/ TimerFire(c)
        \/ AbortReject(c)
        \/ BodyDecoded(c)
        \/ \E error \in BodyFailures : BodyFail(c, error)

\* One request at a time, any server behaviour.
Spec == Init /\ [][Next]_vars

\* The runtime fires an armed timer and runs the continuation of a settled
\* promise; nothing obliges the server or the network to act.
FairSpec ==
    /\ Spec
    /\ \A c \in SeqCalls : WF_vars(TimerFire(c)) /\ WF_vars(AbortReject(c))

(***************************************************************************)
(* Several requests in flight on one client, against a small server.       *)
(***************************************************************************)
ConcResponses ==
    [status : {200, 204, 500},
     retryAfter : {None},
     body : {JsonStringify(OperationDoc), JsonStringify(ErrorDoc)}]

ConcInit == Init /\ config.sandbox = None /\ config.baseUrl = None

ConcNext ==
    \E c \in CallIds :
        \/ Request(c, "GET", "/operations/abc123", JsUndefined)
        \/ \E resp \in ConcResponses : FetchResolve(c, resp)
        \/ FetchReject(c, NetworkError)
        \/ TimerFire(c)
        \/ AbortReject(c)
        \/ BodyDecoded(c)
        \/ BodyFail(c, BodyReadError)

ConcSpec == ConcInit /\ [][ConcNext]_vars

(***************************************************************************)
(* The client side in full (every configuration, every argument of         *)
(* request), one request at a time, against the small server.              *)
(***************************************************************************)
ClientConfigs ==
    [apiKey : {"fk_test_key", "fk_live_key", ""},
     sandbox : {None, Some(TRUE), Some(FALSE)},
     timeout : {None, Some(0), Some(5000)},
     baseUrl : {None, Some(CustomUrl), Some(CustomUrlSlash)}]

ClientInit ==
    /\ config \in ClientConfigs
    /\ client = NewClient(config)
    /\ call = [c \in CallIds |-> IdleCall]

ClientNext ==
    \E c \in SeqCalls :
        \/ \E m \in Methods, p \in Paths, b \in RequestBodies : Request(c, m, p, b)
        \/ \E resp \in ConcResponses : FetchResolve(c, resp)
        \/ FetchReject(c, NetworkError)
        \/ TimerFire(c)
        \/ AbortReject(c)
        \/ BodyDecoded(c)
        \/ BodyFail(c, BodyReadError)

ClientSpec == ClientInit /\ [][ClientNext]_vars

(***************************************************************************)
(* The operations of OperationsApi on one client, one at a time, against   *)
(* the small server.                                                       *)
(***************************************************************************)
OperationIds == {"abc123", "xyz789"}

CreateRequest ==
    JsObject(<< <<"externalId", "BOOK-2026-00123">>, <<"packageName", "Paris Weekend">> >>)

FinancingRequest ==
    JsObject(<< <<"successCallbackUrl", "https://partner.example/ok">>,
                <<"errorCallbackUrl", "https://partner.example/ko">> >>)

\* cancel's optional request: omitted, or with a reason.
CancelRequests == {JsUndefined, CancelRequest}

Favorable == ParamString(<<"F", "A", "V", "O", "R", "A", "B", "L", "E">>)

FromDate == ParamString(<<"2", "0", "2", "6", "-", "0", "1", "-", "1", "5">>)

\* list's optional params: omitted, empty, fields present, undefined or
\* null, a falsy number, and fields in another order.
ListParams ==
    {None,
     Some(<<>>),
     Some(<< <<"status", Favorable>>, <<"page", ParamNumber(<<"0">>)>>,
             <<"size", ParamNumber(<<"2", "0">>)>> >>),
     Some(<< <<"status", ParamUndefined>>, <<"page", ParamNull>> >>),
     Some(<< <<"status", ParamUndefined>>, <<"from", FromDate>>,
             <<"to", ParamNull>>, <<"size", ParamNumber(<<"2", "0">>)>> >>),
     Some(<< <<"size", ParamNumber(<<"2", "0">>)>>, <<"status", Favorable>> >>),
     Some(<< <<"page", ParamNumber(<<"0">>)>> >>)}

Operation(name, operationId, request, params) ==
    [name |-> name, operationId |-> operationId, request |-> request, params |-> params]

create(c, request) ==
    /\ Free(c)
    /\ call' = [call EXCEPT ![c] =
            InvokeRequest(client, Operation("create", "", request, None),
                          "POST", "/operations", request)]
    /\ UNCHANGED <<config, client>>

get(c, operationId) ==
    /\ Free(c)
    /\ call' = [call EXCEPT ![c] =
            InvokeRequest(client, Operation("get", operationId, JsUndefined, None),
                          "GET", "/operations/" \o operationId, JsUndefined)]
    /\ UNCHANGED <<config, client>>

list(c, params) ==
    /\ Free(c)
    /\ call' = [call EXCEPT ![c] =
            InvokeRequest(client, Operation("list", "", JsUndefined, params),
                          "GET", ListPath(params), JsUndefined)]
    /\ UNCHANGED <<config, client>>

getStatus(c, operationId) ==
    /\ Free(c)
    /\ call' = [call EXCEPT ![c] =
            InvokeRequest(client, Operation("getStatus", operationId, JsUndefined, None),
                          "GET", "/operations/" \o operationId \o "/status", JsUndefined)]
    /\ UNCHANGED <<config, client>>

getPlans(c, operationId) ==
    /\ Free(c)
    /\ call' = [call EXCEPT ![c] =
            InvokeRequest(client, Operation("getPlans", operationId, JsUndefined, None),
                          "GET", "/operations/" \o operationId \o "/plans", JsUndefined)]
    /\ UNCHANGED <<config, client>>

startFinancing(c, operationId, request) ==
    /\ Free(c)
    /\ call' = [call EXCEPT ![c] =
            InvokeRequest(client, Operation("startFinancing", operationId, request, None),
                          "POST", "/operations/" \o operationId \o "/financing", request)]
    /\ UNCHANGED <<config, client>>

cancel(c, operationId, request) ==
    /\ Free(c)
    /\ call' = [call EXCEPT ![c] =
            InvokeRequest(client, Operation("cancel", operationId, request, None),
                          "POST", "/operations/" \o operationId \o "/cancel", request)]
    /\ UNCHANGED <<config, client>>

\* The request an operation awaits has settled: the operation settles.
OperationSettle(c) ==
    /\ call[c].facade = "awaiting"
    /\ Settled(c)
    /\ call' = [call EXCEPT ![c] = OperationReturn(call[c])]
    /\ UNCHANGED <<config, client>>

ApiNext ==
    \E c \in SeqCalls :
        \/ create(c, CreateRequest)
        \/ \E id \in OperationIds : get(c, id)
        \/ \E params \in ListParams : list(c, params)
        \/ \E id \in OperationIds : getStatus(c, id)
        \/ \E id \in OperationIds : getPlans(c, id)
        \/ \E id \in OperationIds : startFinancing(c, id, FinancingRequest)
        \/ \E id \in OperationIds, request \in CancelRequests : cancel(c, id, request)
        \/ OperationSettle(c)
        \/ \E resp \in ConcResponses : FetchResolve(c, resp)
        \/ FetchReject(c, NetworkError)
        \/ TimerFire(c)
        \/ AbortReject(c)
        \/ BodyDecoded(c)
        \/ BodyFail(c, BodyReadError)

ApiSpec == Init /\ [][ApiNext]_vars

(***************************************************************************)
(* Two clients constructed from configurations that differ in apiKey only, *)
(* making the same calls and getting the same answers from the server and  *)
(* the network at the same moments: call site 1 is the first client's,     *)
(* call site 2 the second's.                                               *)
(***************************************************************************)
TwinConfigs ==
    [apiKey : {"fk_test_key", "fk_live_key", ""},
     sandbox : {None},
     timeout : {None, Some(5000)},
     baseUrl : {None, Some(CustomUrl)}]

\* The second client's key, another one than the first's.
TwinKey(apiKey) ==
    CASE apiKey = "fk_test_key" -> "fk_live_key"
      [] apiKey = "fk_live_key" -> ""
      [] OTHER -> "fk_test_key"

TwinClient == NewClient([config EXCEPT !.apiKey = TwinKey(config.apiKey)])

TwinInit ==
    /\ config \in TwinConfigs
    /\ client = NewClient(config)
    /\ call = [c \in CallIds |-> IdleCall]

TwinRequest(method, path, body) ==
    /\ Free(1) /\ Free(2)
    /\ call' = [call EXCEPT ![1] = StartRequest(client, method, path, body),
                            ![2] = StartRequest(TwinClient, method, path, body)]
    /\ UNCHANGED <<config, client>>

TwinFetchResolve(resp) ==
    /\ \A c \in {1, 2} : call[c].pc = "fetching" /\ ~call[c].aborted
    /\ call' = [call EXCEPT ![1] = AfterFetch(call[1], resp),
                            ![2] = AfterFetch(call[2], resp)]
    /\ UNCHANGED <<config, client>>

TwinFetchReject(error) ==
    /\ \A c \in {1, 2} : call[c].pc = "fetching" /\ ~call[c].aborted
    /\ call' = [call EXCEPT ![1] = Catch(client, call[1], error),
                            ![2] = Catch(TwinClient, call[2], error)]
    /\ UNCHANGED <<config, client>>

TwinTimerFire ==
    /\ \A c \in {1, 2} : call[c].timer = "armed"
    /\ call' = [call EXCEPT ![1].timer = "fired", ![1].aborted = TRUE,
                            ![2].timer = "fired", ![2].aborted = TRUE]
    /\ UNCHANGED <<config, client>>

TwinAbortReject ==
    /\ \A c \in {1, 2} : Pending(c) /\ call[c].aborted
    /\ call' = [call EXCEPT ![1] = Catch(client, call[1], AbortError),
                            ![2] = Catch(TwinClient, call[2], AbortError)]
    /\ UNCHANGED <<config, client>>

TwinBodyDecoded ==
    /\ \A c \in {1, 2} : call[c].pc = "reading" /\ ~call[c].aborted
    /\ call' = [call EXCEPT ![1] = AfterJson(client, call[1]),
                            ![2] = AfterJson(TwinClient, call[2])]
    /\ UNCHANGED <<config, client>>

TwinBodyFail(error) ==
    /\ \A c \in {1, 2} : call[c].pc = "reading" /\ ~call[c].aborted
    /\ call' = [call EXCEPT
            ![1] = Catch(client, [call[1] EXCEPT !.body = "broken"], error),
            ![2] = Catch(TwinClient, [call[2] EXCEPT !.body = "broken"], error)]
    /\ UNCHANGED <<config, client>>

TwinNext ==
    \/ \E m \in Methods, p \in Paths, b \in RequestBodies : TwinRequest(m, p, b)
    \/ \E resp \in Responses : TwinFetchResolve(resp)
    \/ \E error \in FetchFailures : TwinFetchReject(error)
    \/ TwinTimerFire
    \/ TwinAbortReject
    \/ TwinBodyDecoded
    \/ \E error \in BodyFailures : TwinBodyFail(error)

TwinSpec == TwinInit /\ [][TwinNext]_vars

(***************************************************************************)
(* Properties                                                              *)
(***************************************************************************)
TypeOK ==
    /\ config \in Configs
    /\ client = NewClient(config)
    /\ \A c \in CallIds :
        /\ call[c].pc \in {"idle", "fetching", "reading", "resolved", "rejected"}
        /\ call[c].timer \in {"none", "armed", "fired", "cleared"}
        /\ call[c].body \in {"unread", "complete", "broken"}

\* C1: once an invocation has settled (resolved or rejected, whichever way
\* it ended), the timer it started is no longer scheduled: it has been
\* cleared or has already fired, so it cannot fire after the call settled.
C1_NoTimerLeftScheduled ==
    \A c \in CallIds : Settled(c) => call[c].timer \in {"cleared", "fired"}

\* C1 witness: a call rejected by a network failure (the catch path), its
\* timer cleared.
C1_Witness ==
    \E c \in CallIds :
        /\ call[c].pc = "rejected"
        /\ call[c].thrown = Some(NetworkError)
        /\ call[c].timer = "cleared"

\* The timeout the configuration asks for: config.timeout when supplied
\* (0 included), else 30000.
ConfiguredTimeout == IF config.timeout = None THEN 30000 ELSE config.timeout[1]

\* C2: when the timer of a request has fired (which happens only while the
\* exchange is pending), the exchange is aborted, and the call can settle
\* only by rejecting with a plain Error, not a FliinowError and without a
\* statusCode, whose message is 'Request timeout after <T>ms', T being the
\* configured timeout (0 when 0 was supplied, 30000 when none was).
C2_TimeoutRejects ==
    \A c \in CallIds :
        call[c].timer = "fired" =>
            /\ call[c].aborted
            /\ call[c].response = None
            /\ call[c].pc \in {"fetching", "rejected"}
            /\ call[c].pc = "rejected" =>
                /\ call[c].error # None
                /\ call[c].error[1].class = "Error"
                /\ call[c].error[1].statusCode = None
                /\ call[c].error[1].message =
                       "Request timeout after " \o ToString(ConfiguredTimeout) \o "ms"
                /\ config.timeout = Some(0) =>
                       call[c].error[1].message = "Request timeout after 0ms"
                /\ config.timeout = None =>
                       call[c].error[1].message = "Request timeout after 30000ms"

\* C2 witness: a client configured with timeout 0 whose call timed out.
C2_Witness ==
    \E c \in CallIds :
        /\ config.timeout = Some(0)
        /\ call[c].timer = "fired"
        /\ call[c].pc = "rejected"

\* C3: every invocation eventually settles: a call that is pending (awaiting
\* the response or its body) is eventually resolved or rejected, the timeout
\* rejecting it when the server stays silent, before or after the headers.
C3_EventuallySettles == \A c \in CallIds : Pending(c) ~> Settled(c)

\* What the timer does guarantee: a call does not stay suspended at fetch;
\* the response headers arrive, fetch fails, or the timeout rejects the call.
TimeoutBeforeHeaders ==
    \A c \in CallIds : (call[c].pc = "fetching") ~> (call[c].pc # "fetching")

\* The call at call site c has received a response (status and headers).
HasStatus(c) == call[c].response # None

StatusOf(c) == call[c].response[1].status

\* The body of the response of call site c was read to its end and is the
\* serialisation of document d.
BodyIs(c, d) ==
    /\ HasStatus(c)
    /\ call[c].body = "complete"
    /\ call[c].response[1].body = JsonStringify(d)

\* C4: a response with status 204 resolves the call with an absent
\* (undefined) result, and response.json() is never called for it, whatever
\* the method, path, request body and response body.
C4_NoContentNotDecoded ==
    \A c \in CallIds :
        (HasStatus(c) /\ StatusOf(c) = 204) =>
            /\ call[c].pc = "resolved"
            /\ call[c].value = JsUndefined
            /\ call[c].error = None
            /\ call[c].decodes = 0
            /\ call[c].body = "unread"

\* C4 witness: a POST with a body answered 204 with a body that would decode.
C4_Witness ==
    \E c \in CallIds :
        /\ call[c].pc = "resolved"
        /\ call[c].args.method = "POST"
        /\ call[c].args.body = CancelRequest
        /\ HasStatus(c) /\ StatusOf(c) = 204
        /\ call[c].response[1].body = JsonStringify(OperationDoc)

\* C5: a response with a status in [200,300) other than 204 whose body is
\* the JSON text of a value X resolves the call with exactly X: every field
\* of X, an unknown status string and an undeclared field included, and
\* nothing else.
C5_DecodedBodyReturnedUnchanged ==
    \A c \in CallIds : \A d \in JsonDocuments :
        (BodyIs(c, d) /\ StatusOf(c) >= 200 /\ StatusOf(c) < 300 /\ StatusOf(c) # 204) =>
            /\ call[c].pc = "resolved"
            /\ call[c].value = d
            /\ call[c].error = None

\* C5 witness: an operation with an unknown status and an extra field came
\* back from a 200 and was returned.
C5_Witness ==
    \E c \in CallIds :
        /\ call[c].pc = "resolved"
        /\ BodyIs(c, FutureOperationDoc)
        /\ StatusOf(c) = 200
        /\ Prop(call[c].value, "status") = Some("ON_HOLD")
        /\ Prop(call[c].value, "extra") = Some("x")

\* The error envelopes {error, message, timestamp, path, requestId?}.
ErrorEnvelopes == {ErrorDoc, ErrorDocNoRequestId}

\* C6: a response with a status outside [200,300) and a well-formed error
\* body rejects the call with a FliinowError whose statusCode is the
\* response status, code the body's error, message the body's message, path
\* the body's path and requestId the body's requestId (absent when the body
\* has none).
C6_ErrorEnvelopeMapped ==
    \A c \in CallIds : \A d \in ErrorEnvelopes :
        (BodyIs(c, d) /\ ~(StatusOf(c) >= 200 /\ StatusOf(c) < 300)) =>
            /\ call[c].pc = "rejected"
            /\ call[c].error # None
            /\ call[c].error[1].class = "FliinowError"
            /\ call[c].error[1].name = "FliinowError"
            /\ call[c].error[1].statusCode = Some(StatusOf(c))
            /\ d = ErrorDoc =>
                /\ call[c].error[1].code = Some("RATE_LIMIT_EXCEEDED")
                /\ call[c].error[1].message = "Too many requests"
                /\ call[c].error[1].path = Some("/operations")
                /\ call[c].error[1].requestId = Some("req-1")
            /\ d = ErrorDocNoRequestId =>
                /\ call[c].error[1].code = Some("NOT_FOUND")
                /\ call[c].error[1].message = "Operation not found"
                /\ call[c].error[1].path = Some("/operations/abc123")
                /\ call[c].error[1].requestId = None

\* C6 witness: a 500 with an envelope that has no requestId was raised.
C6_Witness ==
    \E c \in CallIds :
        /\ call[c].pc = "rejected"
        /\ BodyIs(c, ErrorDocNoRequestId)
        /\ StatusOf(c) = 500
        /\ call[c].error[1].class = "FliinowError"

\* A header value that is an integer: digits only, at least one.
IsIntegerText(chars) == chars # <<>> /\ \A i \in 1..Len(chars) : IsDigit(chars[i])

\* C7: the retryAfter of the FliinowError of a non-2xx response is the
\* integer value of the Retry-After header when the header is present and
\* is an integer, and is absent (undefined) in every other case: header
\* missing, empty, or not an integer (an HTTP-date).
C7_RetryAfterIntegerOrAbsent ==
    \A c \in CallIds :
        (call[c].pc = "rejected" /\ call[c].error[1].class = "FliinowError") =>
            LET header == call[c].response[1].retryAfter
            IN IF header # None /\ IsIntegerText(header[1])
               THEN call[c].error[1].retryAfter = Num(DigitsValue(header[1], 0))
               ELSE call[c].error[1].retryAfter = NumUndefined

RejectedWithFliinowError(c) ==
    call[c].pc = "rejected" /\ call[c].error # None /\ call[c].error[1].class = "FliinowError"

ExpectedRejection(c) ==
    LET caught == call[c].thrown[1]
    IN IF caught.class = "none" THEN UnknownError
       ELSE IF caught = AbortError
            THEN PlainError("Error", "Error",
                            "Request timeout after " \o ToString(client.timeout) \o "ms")
            ELSE caught

\* C10: no failure is swallowed or turned into a value.  A settled call has
\* resolved exactly when it received a 204, or a status in [200,300) with a
\* body that was read and decoded; in every other case (status outside
\* [200,300), network failure, timeout, broken or undecodable body) it has
\* rejected, and what it rejected with is an Error object: the FliinowError,
\* the timeout Error, the underlying Error, or Error('Unknown error
\* occurred') when the underlying stack threw a value that is no Error.
C10_FailuresRejectWithErrors ==
    \A c \in CallIds :
        Settled(c) =>
            /\ call[c].pc = "resolved" <=>
                /\ HasStatus(c)
                /\ \/ StatusOf(c) = 204
                   \/ /\ StatusOf(c) >= 200 /\ StatusOf(c) < 300
                      /\ call[c].body = "complete"
                      /\ JsonParse(call[c].response[1].body).ok
            /\ call[c].pc = "resolved" => call[c].error = None /\ call[c].thrown = None
            /\ call[c].pc = "rejected" =>
                /\ call[c].thrown # None
                /\ call[c].error # None
                /\ call[c].error[1].class \in
                       {"FliinowError", "Error", "TypeError", "SyntaxError"}
                /\ call[c].error[1] = ExpectedRejection(c)
                /\ call[c].value = JsUndefined

\* C10 witness: the underlying stack threw a value that is no Error, and
\* the call rejected with Error('Unknown error occurred').
C10_Witness ==
    \E c \in CallIds :
        /\ call[c].pc = "rejected"
        /\ call[c].thrown = Some(NonErrorThrow)
        /\ call[c].error = Some(UnknownError)

\* The base URL the configuration selects: a supplied baseUrl whatever
\* sandbox is, else the demo host for sandbox = true, else the production
\* host.
ConfiguredBaseUrl ==
    IF config.baseUrl # None THEN config.baseUrl[1]
    ELSE IF config.sandbox = Some(TRUE)
         THEN "https://demo.fliinow.com/integration-api/v1"
         ELSE "https://app.fliinow.com/integration-api/v1"

RECURSIVE PresentFields(_)
PresentFields(entries) ==
    IF entries = <<>> THEN <<>>
    ELSE (IF entries[1][2].t \in {"undefined", "null"} THEN <<>> ELSE << entries[1] >>)
         \o PresentFields(Tail(entries))

RECURSIVE Text(_)
Text(chars) == IF chars = <<>> THEN "" ELSE chars[1] \o Text(Tail(chars))

RECURSIVE JoinFields(_)
JoinFields(fields) ==
    IF fields = <<>> THEN ""
    ELSE (IF Len(fields) = 1 THEN "" ELSE JoinFields(SubSeq(fields, 1, Len(fields) - 1)) \o "&")
         \o fields[Len(fields)][1] \o "=" \o Text(fields[Len(fields)][2].chars)

SampleParams ==
    Some(<< <<"status", ParamUndefined>>, <<"from", FromDate>>,
            <<"to", ParamNull>>, <<"size", ParamNumber(<<"2", "0">>)>> >>)

\* C12: list sends GET to "/operations" followed by a query string holding
\* exactly the fields of params that are neither undefined nor null, each as
\* key=text of the value, in the order of the params object, joined by "&"
\* and led by "?"; with params omitted, or with no such field, the path is
\* "/operations" with no "?".
C12_ListQueryString ==
    \A c \in CallIds :
        call[c].op.name = "list" =>
            LET params == call[c].op.params
                fields == IF params = None THEN <<>> ELSE PresentFields(params[1])
            IN /\ call[c].args.method = "GET"
               /\ call[c].args.path =
                      IF fields = <<>> THEN "/operations"
                      ELSE "/operations?" \o JoinFields(fields)
               /\ call[c].exchange.url = client.baseUrl \o call[c].args.path
               /\ params = SampleParams =>
                      call[c].args.path = "/operations?from=2026-01-15&size=20"
               /\ params = Some(<< <<"page", ParamNumber(<<"0">>)>> >>) =>
                      call[c].args.path = "/operations?page=0"
               /\ params = Some(<< <<"status", Favorable>>, <<"page", ParamNumber(<<"0">>)>>,
                                   <<"size", ParamNumber(<<"2", "0">>)>> >>) =>
                      call[c].args.path = "/operations?status=FAVORABLE&page=0&size=20"

C12_Witness ==
    \E c \in CallIds :
        /\ call[c].op.name = "list"
        /\ call[c].op.params = SampleParams
        /\ call[c].args.path = "/operations?from=2026-01-15&size=20"
        /\ call[c].facade = "resolved"


\* The method, path and body each operation hands to request.
ExpectedArgs(op) ==
    CASE op.name = "create" ->
            [method |-> "POST", path |-> "/operations", body |-> op.request]
      [] op.name = "get" ->
            [method |-> "GET", path |-> "/operations/" \o op.operationId,
             body |-> JsUndefined]
      [] op.name = "getStatus" ->
            [method |-> "GET", path |-> "/operations/" \o op.operationId \o "/status",
             body |-> JsUndefined]
      [] op.name = "getPlans" ->
            [method |-> "GET", path |-> "/operations/" \o op.operationId \o "/plans",
             body |-> JsUndefined]
      [] op.name = "startFinancing" ->
            [method |-> "POST", path |-> "/operations/" \o op.operationId \o "/financing",
             body |-> op.request]
      [] op.name = "cancel" ->
            [method |-> "POST", path |-> "/operations/" \o op.operationId \o "/cancel",
             body |-> op.request]

\* C13: every operation of OperationsApi makes one call of request, with its
\* fixed method and path and its argument as the body, and one exchange;
\* it settles as request settled: every operation but cancel resolves with
\* the value request resolved with, cancel resolves with undefined whatever
\* that value was, and a rejection of request is the operation's rejection,
\* cancel's too.
C13_OperationsPassThrough ==
    \A c \in CallIds :
        LET rec == call[c]
        IN call[c].op.name # "request" =>
            /\ rec.op.name # "list" => rec.args = ExpectedArgs(rec.op)
            /\ rec.exchange.method = rec.args.method
            /\ rec.exchange.url = client.baseUrl \o rec.args.path
            /\ rec.fetches = 1
            /\ rec.facade \in {"awaiting", "resolved", "rejected"}
            /\ rec.facade = "resolved" =>
                  /\ rec.pc = "resolved"
                  /\ rec.failure = None
                  /\ rec.result = IF rec.op.name = "cancel" THEN JsUndefined ELSE rec.value
            /\ rec.facade = "rejected" =>
                  /\ rec.pc = "rejected"
                  /\ rec.failure = rec.error
                  /\ rec.failure # None
                  /\ rec.result = JsUndefined
            /\ (rec.op = Operation("cancel", "abc123", CancelRequest, None)) =>
                  /\ rec.args.path = "/operations/abc123/cancel"
                  /\ rec.exchange.payload = JsonStringify(CancelRequest)

\* cancel has resolved with undefined although request resolved with a
\* decoded document.
C13_Witness ==
    \E c \in CallIds :
        /\ call[c].op = Operation("cancel", "abc123", CancelRequest, None)
        /\ call[c].facade = "resolved"
        /\ call[c].value = OperationDoc
        /\ call[c].result = JsUndefined


\* What a request run alone settles with, given what the server and the
\* network did to it: pc, value and error.
AloneOutcome(rec) ==
    IF rec.timer = "fired"
    THEN [pc |-> "rejected", value |-> JsUndefined,
          error |-> Some(TimeoutError(ConfiguredTimeout))]
    ELSE IF rec.response = None
    THEN [pc |-> "rejected", value |-> JsUndefined, error |-> Some(NetworkError)]
    ELSE IF rec.response[1].status = 204
    THEN [pc |-> "resolved", value |-> JsUndefined, error |-> None]
    ELSE IF rec.body = "broken"
    THEN [pc |-> "rejected", value |-> JsUndefined, error |-> Some(BodyReadError)]
    ELSE IF rec.response[1].status = 200
    THEN [pc |-> "resolved", value |-> JsonParse(rec.response[1].body).data, error |-> None]
    ELSE [pc |-> "rejected", value |-> JsUndefined,
          error |-> Some(FliinowError(JsonParse(rec.response[1].body).data,
                                      rec.response[1].status, NumUndefined))]

\* C14: with several requests in flight on one client, each has its own
\* timer and abort signal: an exchange is aborted only when the timer of its
\* own call has fired, every step changes one call and leaves the others
\* (their timers, signals and outcomes) as they were, and a settled call has
\* the outcome it would have alone, given the response it got itself.
C14_ConcurrentCallsIndependent ==
    /\ [](\A c \in CallIds :
            /\ call[c].aborted => call[c].timer = "fired"
            /\ Settled(c) =>
                  [pc |-> call[c].pc, value |-> call[c].value, error |-> call[c].error]
                      = AloneOutcome(call[c]))
    /\ [][\A c, d \in CallIds :
            (c # d /\ call'[c] # call[c]) => call'[d] = call[d]]_vars

\* Two requests in flight at once: the timer of one has fired and aborted
\* its exchange, the other is reading its response.
C14_Witness ==
    \E c, d \in CallIds :
        /\ c # d
        /\ call[c].pc = "fetching" /\ call[c].timer = "fired" /\ call[c].aborted
        /\ call[d].pc = "reading" /\ ~call[d].aborted /\ call[d].response # None


\* C15: every exchange request starts, for every method and with or without
\* a payload, carries X-Fliinow-API-Key with the apiKey the client was
\* constructed with, Content-Type: application/json and
\* Accept: application/json.
C15_HeadersOnEveryExchange ==
    \A c \in CallIds :
        call[c].fetches > 0 =>
            /\ call[c].exchange.apiKeyHeader = config.apiKey
            /\ call[c].exchange.contentType = "application/json"
            /\ call[c].exchange.accept = "application/json"

\* A GET without a payload has gone out with the three headers.
C15_Witness ==
    \E c \in CallIds :
        /\ config.apiKey = "fk_live_key"
        /\ call[c].args.method = "GET"
        /\ ~call[c].exchange.hasPayload
        /\ call[c].response # None
        /\ call[c].exchange.apiKeyHeader = "fk_live_key"
        /\ call[c].exchange.contentType = "application/json"


\* What a call of request starts with on a client of this configuration,
\* whatever came before: one exchange to base URL + path with the headers
\* and the payload of its own arguments, its timer armed.
FreshCall(args) ==
    [timer |-> "armed", aborted |-> FALSE, fetches |-> 1, decodes |-> 0, errors |-> 0,
     response |-> None, thrown |-> None, value |-> JsUndefined, error |-> None,
     url |-> ConfiguredBaseUrl \o args.path, method |-> args.method,
     apiKeyHeader |-> config.apiKey,
     payload |-> IF Truthy(args.body) THEN JsonStringify(args.body) ELSE ""]

Started(rec) ==
    [timer |-> rec.timer, aborted |-> rec.aborted, fetches |-> rec.fetches,
     decodes |-> rec.decodes, errors |-> rec.errors,
     response |-> rec.response, thrown |-> rec.thrown, value |-> rec.value,
     error |-> rec.error,
     url |-> rec.exchange.url, method |-> rec.exchange.method,
     apiKeyHeader |-> rec.exchange.apiKeyHeader, payload |-> rec.exchange.payload]

\* C16: after any sequence of calls, whatever their outcomes, the client's
\* base URL, apiKey and timeout are the ones resolved at construction and
\* the client has no other field; no step changes the client; and a call
\* starts the same way whatever the call before it at that call site did.
C16_ClientNeverChanges ==
    /\ [](/\ client = [baseUrl |-> ConfiguredBaseUrl, apiKey |-> config.apiKey,
                        timeout |-> ConfiguredTimeout]
          /\ \A c \in CallIds :
                (Settled(c) /\ call[c].error # None
                    /\ call[c].error[1].message = "Request timeout after 5000ms")
                => client.timeout = 5000)
    /\ [][/\ client' = client
          /\ config' = config
          /\ \A c \in CallIds :
                (call'[c].pc = "fetching" /\ call[c].pc # "fetching")
                => Started(call'[c]) = FreshCall(call'[c].args)]_vars

\* A call has timed out on a client configured with 5000 ms, and the client
\* still has that timeout.
C16_Witness ==
    \E c \in CallIds :
        /\ call[c].pc = "rejected"
        /\ call[c].timer = "fired"
        /\ config.timeout = Some(5000)
        /\ client.timeout = 5000
        /\ client.apiKey = config.apiKey


\* The body of the response of call site c could not be decoded: it is not
\* JSON, or the read broke.
DecodeFailed(c) ==
    /\ HasStatus(c)
    /\ \/ call[c].body = "broken"
       \/ call[c].body = "complete" /\ ~JsonParse(call[c].response[1].body).ok

\* C17: a response whose status is not 204 has its body decoded whatever the
\* status is, before the status is looked at; when decoding fails, the call
\* rejects with a generic Error that is no FliinowError and carries no
\* status code, for a status in [200,300) and for one outside alike.
C17_DecodeBeforeStatus ==
    \A c \in CallIds :
        /\ (HasStatus(c) /\ StatusOf(c) # 204) => call[c].decodes = 1
        /\ DecodeFailed(c) =>
              /\ StatusOf(c) # 204
              /\ call[c].pc = "rejected"
              /\ call[c].errors = 0
              /\ call[c].error # None
              /\ call[c].error[1].class \in {"SyntaxError", "TypeError", "Error"}
              /\ call[c].error[1].statusCode = None
              /\ call[c].error[1].retryAfter = NumUndefined
              /\ call[c].body = "complete" => call[c].error = Some(SyntaxError)

\* A 500 whose body is not JSON has rejected with the decoder's SyntaxError.
C17_Witness ==
    \E c \in CallIds :
        /\ HasStatus(c) /\ StatusOf(c) = 500
        /\ call[c].body = "complete"
        /\ call[c].response[1].body = HtmlBody
        /\ call[c].error = Some(SyntaxError)


\* C18: a response with a status outside [200,300) whose body decodes as
\* JSON, whatever the decoded value (an object lacking envelope fields, an
\* array, JSON null), makes request reject with a FliinowError whose
\* statusCode is that status.
C18_DecodedErrorBodyIsFliinowError ==
    \A c \in CallIds :
        (/\ HasStatus(c)
         /\ ~(StatusOf(c) >= 200 /\ StatusOf(c) < 300)
         /\ call[c].body = "complete"
         /\ JsonParse(call[c].response[1].body).ok)
        => /\ RejectedWithFliinowError(c)
           /\ call[c].error[1].statusCode = Some(StatusOf(c))


\* C19: when request is called with a body argument that is present (any
\* JSON-serialisable value, 0 and null included) the exchange carries its
\* JSON serialisation as payload; when the argument is absent the exchange
\* carries no payload.
C19_PresentBodyIsSent ==
    \A c \in CallIds :
        call[c].fetches > 0 =>
            IF call[c].args.body # JsUndefined
            THEN /\ call[c].exchange.hasPayload
                 /\ call[c].exchange.payload = JsonStringify(call[c].args.body)
            ELSE ~call[c].exchange.hasPayload


\* Call site c rejected with the 'Request timeout after <T>ms' error.
ReportedAsTimeout(c) ==
    /\ call[c].pc = "rejected"
    /\ call[c].error # None
    /\ call[c].error[1].class = "Error"
    /\ call[c].error[1].message =
          "Request timeout after " \o ToString(ConfiguredTimeout) \o "ms"

\* C20: an exchange is aborted only by the firing of its own call's timer,
\* and a call is reported as a timeout only if its timer fired before the
\* exchange produced a response: a call that got a response, and a call
\* whose exchange failed before the timer fired, is never reported as a
\* timeout.
C20_OnlyTheTimerCancels ==
    \A c \in CallIds :
        /\ call[c].aborted => call[c].timer = "fired"
        /\ call[c].timer = "fired" => ~HasStatus(c)
        /\ ReportedAsTimeout(c) =>
              /\ call[c].timer = "fired"
              /\ call[c].aborted
              /\ call[c].thrown = Some(AbortError)
              /\ ~HasStatus(c)
        /\ (Settled(c) /\ HasStatus(c)) => ~ReportedAsTimeout(c)
        /\ (Settled(c) /\ call[c].timer = "cleared") => ~ReportedAsTimeout(c)

\* The default timer fired with no response yet, the exchange was aborted
\* and the call was reported as a timeout.
C20_Witness ==
    \E c \in CallIds :
        /\ config.timeout = None
        /\ call[c].timer = "fired"
        /\ call[c].thrown = Some(AbortError)
        /\ ~HasStatus(c)
        /\ ReportedAsTimeout(c)
        /\ call[c].error[1].message = "Request timeout after 30000ms"


\* A call with the key header of its exchange blanked.
WithoutKeyHeader(rec) == [rec EXCEPT !.exchange.apiKeyHeader = ""]

\* C21: the apiKey reaches the X-Fliinow-API-Key header and nothing else:
\* two clients that differ in apiKey only, making the same call and getting
\* the same answers, send the same URL, method and payload and end with the
\* same value or the same error (class, message, statusCode, code, path,
\* requestId, retryAfter); their calls differ in the key header alone, which
\* carries each client's own key.
C21_ApiKeyOnlyInHeader ==
    /\ WithoutKeyHeader(call[1]) = WithoutKeyHeader(call[2])
    /\ call[1].exchange.url = call[2].exchange.url
    /\ call[1].exchange.payload = call[2].exchange.payload
    /\ call[1].pc = call[2].pc
    /\ call[1].value = call[2].value
    /\ call[1].error = call[2].error
    /\ call[1].fetches > 0 =>
          /\ call[1].exchange.apiKeyHeader = config.apiKey
          /\ call[2].exchange.apiKeyHeader = TwinKey(config.apiKey)
          /\ call[1].exchange.apiKeyHeader # call[2].exchange.apiKeyHeader
          /\ call[1].exchange.url = ConfiguredBaseUrl \o call[1].args.path

\* Both clients were answered 429 with the error envelope and
\* Retry-After: 5, and rejected with the same FliinowError, their key
\* headers being different.
C21_Witness ==
    /\ config.apiKey = "fk_test_key"
    /\ call[1].exchange.apiKeyHeader = "fk_test_key"
    /\ call[2].exchange.apiKeyHeader = "fk_live_key"
    /\ call[1].pc = "rejected"
    /\ call[1].error = Some(FliinowError(ErrorDoc, 429, Num(5)))
    /\ call[2].error = call[1].error
    /\ call[1].args.body = CancelRequest

=============================================================================
